---- MODULE Spec2Model ----
(***************************************************************************)
(* Nonce sequencing and transaction confirmation in go-eth-demo.           *)
(*                                                                         *)
(* The sequencer operations are the code fragments of the repository:      *)
(*   NonceManager.GetNextNonce / ResetFromNetwork and the loop that uses   *)
(*   them (context_vs_other_languages.md 253-292), the "fetch the nonce    *)
(*   once, add i" batch pattern (same file 199-243), the build / sign /    *)
(*   send sequence of task01 (task02.go 259-272) and the wait for the      *)
(*   receipt of task02 (task02.go 18, 89-100).                             *)
(* The chain node (pending pool, inclusion, receipts) is the external      *)
(* collaborator the code talks to through ethclient.                       *)
(***************************************************************************)
EXTENDS Integers, Sequences, FiniteSets, TLC

\* ---------------------------------------------------------------- bounds
Addrs == {"a1", "a2"}
Callers == {"c1", "c2"}

\* the pending nonce each account starts with: a1 is a fresh account (0 is also
\* the value GetNextNonce takes for "not fetched yet"), a2 the documented
\* example (startNonce := uint64(5))
StartNonce == [a \in Addrs |-> IF a = "a1" THEN 0 ELSE 5]

MaxRecords == 2
MaxBatch == 2
MaxBlock == 1

\* the largest nonce the caller can be handed
MaxNonce == 5 + MaxRecords

Statuses == {"Built", "Signed", "Submitted", "Confirmed", "Failed"}

VARIABLES
    \* chain node
    mined,          \* [Addrs -> Nat]: number of the account's transactions included in blocks
    pool,           \* [Addrs -> SUBSET Nat]: the transactions (indices of records) admitted
                    \* to the pending pool and not included yet
    receipts,       \* set of [addr, nonce, tx, block, status]
    blockNumber,    \* height of the newest block
    \* NonceManager, one per address
    nextNonce,      \* [Addrs -> Nat]: NonceManager.nextNonce
    confirmedNonce, \* [Addrs -> Nat]: the value the manager fetched last (local `nonce`)
    queried,        \* number of PendingNonceAt calls the last operation made
    \* transactions of the caller
    records,        \* sequence of [addr, nonce, status, via, rejected]
    batches,        \* sequence of [addr, start, nonces]: what each batch allocation returned
    outcome,        \* error or receipt outcome of the last operation, "none" without one
    \* position of the caller
    pc,             \* "idle" | "poll" | "tick"
    waiting,        \* index of the record WaitMined is polling for, 0 when there is none
    \* history kept for the properties
    resetAt,        \* [Addrs -> value fetched by the reset after the last rejection, -1 once used]
    \* goroutines that call GetNextNonce on the shared managers at the same time
    caller,         \* [Callers -> [pc, addr, nonce, result, tmp]]
    \* one run of task01 or task02, from the environment to the last statement
    run,            \* [prog, env, balance, gasPrice, at, endpoint, connected, queries,
                    \*  sends, passed, failed]
    \* func main of the context examples: its goroutines and the time
    net             \* [clock, mpc, cpc, cwake, cancelled, wpc, wwake, deadline, branch]

vars == <<mined, pool, receipts, blockNumber, nextNonce, confirmedNonce, queried,
          records, batches, outcome, pc, waiting, resetAt, caller, run, net>>

chainVars == <<mined, pool, receipts, blockNumber>>
mgrVars == <<nextNonce, confirmedNonce, resetAt>>
waitVars == <<pc, waiting>>
concVars == <<caller>>
progVars == <<run, net>>

\* ------------------------------------------------------------ chain node
\* the nonces of the pooled transactions of an account
PoolNonces(a) == {records[r].nonce : r \in pool[a]}

RECURSIVE NextFree(_, _)
NextFree(a, n) == IF n \in PoolNonces(a) THEN NextFree(a, n + 1) ELSE n

\* client.PendingNonceAt(ctx, addr): the account nonce in the node's pending
\* state, which counts the pooled transactions that directly follow the
\* included ones
PendingNonceAt(a) == NextFree(a, mined[a])

\* client.SendTransaction can succeed only for a nonce that is neither
\* included already (nonce too low) nor in the pool already (already known)
NodeAdmits(a, n) == n >= mined[a] /\ n \notin PoolNonces(a)

HasReceipt(a, n) == \E x \in receipts : x.addr = a /\ x.nonce = n
ReceiptOf(a, n) == CHOOSE x \in receipts : x.addr = a /\ x.nonce = n

\* client.TransactionReceipt(ctx, tx.Hash()): the receipt of this transaction
HasReceiptFor(r) == \E x \in receipts : x.tx = r
ReceiptFor(r) == CHOOSE x \in receipts : x.tx = r

\* a goroutine that is not inside GetNextNonce
Idle == [pc |-> "idle", addr |-> "a1", nonce |-> 0, result |-> 0, tmp |-> 0]

\* a program that has not been started
NoRun ==
    [prog |-> "task01",
     env |-> [rpc |-> TRUE, key |-> TRUE, rcpt |-> TRUE, contract |-> TRUE],
     balance |-> 0, gasPrice |-> 1, at |-> 0, endpoint |-> "unset",
     connected |-> FALSE, queries |-> 0, sends |-> 0, passed |-> {}, failed |-> "none"]

\* func main of the context examples before its first statement has run
NoNet ==
    [clock |-> 0, mpc |-> "off", cpc |-> "none", cwake |-> 0, cancelled |-> FALSE,
     wpc |-> "none", wwake |-> 0, deadline |-> 0, branch |-> "none"]

InitSeq ==
    /\ mined = StartNonce
    /\ pool = [a \in Addrs |-> {}]
    /\ receipts = {}
    /\ blockNumber = 0
    /\ nextNonce = [a \in Addrs |-> 0]
    /\ confirmedNonce = [a \in Addrs |-> 0]
    /\ queried = 0
    /\ records = <<>>
    /\ batches = <<>>
    /\ outcome = "none"
    /\ pc = "idle"
    /\ waiting = 0
    /\ resetAt = [a \in Addrs |-> -1]
    /\ caller = [c \in Callers |-> Idle]

Init ==
    /\ InitSeq
    /\ run = NoRun
    /\ net = NoNet

\* a network that includes any pooled transaction of the account
ChainIncludeAny(a, newBlock, st) ==
    /\ pool[a] # {}
    /\ blockNumber + (IF newBlock THEN 1 ELSE 0) <= MaxBlock
    /\ blockNumber' = blockNumber + (IF newBlock THEN 1 ELSE 0)
    /\ \E r \in pool[a] :
          /\ receipts' = receipts \cup
                 {[addr |-> a, nonce |-> records[r].nonce, tx |-> r,
                   block |-> blockNumber', status |-> st]}
          /\ pool' = [pool EXCEPT ![a] = @ \ {r}]
          /\ mined' = [mined EXCEPT ![a] = IF records[r].nonce >= @
                                             THEN records[r].nonce + 1 ELSE @]
    /\ UNCHANGED <<mgrVars, queried, records, batches, outcome, waitVars, concVars, progVars>>

\* a network that includes a transaction without advancing the account nonce
ChainIncludeStale(a, newBlock, st) ==
    /\ blockNumber + (IF newBlock THEN 1 ELSE 0) <= MaxBlock
    /\ blockNumber' = blockNumber + (IF newBlock THEN 1 ELSE 0)
    /\ \E r \in pool[a] :
          /\ records[r].nonce = mined[a]
          /\ receipts' = receipts \cup
                 {[addr |-> a, nonce |-> mined[a], tx |-> r,
                   block |-> blockNumber', status |-> st]}
          /\ pool' = [pool EXCEPT ![a] = @ \ {r}]
    /\ mined' = mined
    /\ UNCHANGED <<mgrVars, queried, records, batches, outcome, waitVars, concVars, progVars>>

\* the network includes the account's transaction with the next nonce, in the
\* newest block or in a new one, with execution status success (1) or failure (0)
ChainInclude(a, newBlock, st) ==
    /\ blockNumber + (IF newBlock THEN 1 ELSE 0) <= MaxBlock
    /\ blockNumber' = blockNumber + (IF newBlock THEN 1 ELSE 0)
    /\ \E r \in pool[a] :
          /\ records[r].nonce = mined[a]
          /\ receipts' = receipts \cup
                 {[addr |-> a, nonce |-> mined[a], tx |-> r,
                   block |-> blockNumber', status |-> st]}
          /\ pool' = [pool EXCEPT ![a] = @ \ {r}]
    /\ mined' = [mined EXCEPT ![a] = @ + 1]
    /\ UNCHANGED <<mgrVars, queried, records, batches, outcome, waitVars, concVars, progVars>>

\* the node evicts a pooled transaction (dropped)
ChainDrop(a, n) ==
    /\ n \in PoolNonces(a)
    /\ pool' = [pool EXCEPT ![a] = {r \in @ : records[r].nonce # n}]
    /\ UNCHANGED <<mined, receipts, blockNumber, mgrVars, queried, records, batches,
                   outcome, waitVars, concVars, progVars>>

\* ------------------------------------------------------- sequencer state
\* tx := types.NewTransaction(nonce, toAddress, value, gasLimit, gasPrice, nil)
NewTransaction(a, n, origin) ==
    [addr |-> a, nonce |-> n, status |-> "Built", via |-> origin, rejected |-> FALSE]

SetStatus(r, st) == [records EXCEPT ![r].status = st]

\* a batch that counts from 1 instead of 0 and so skips the fetched nonce
BatchNoncesFromOne(start, k) == [i \in 1..k |-> start + i]

\* nonce + uint64(i), i = 0 .. k-1
BatchNonces(start, k) == [i \in 1..k |-> start + (i - 1)]

\* ------------------------------------------------------------ NonceManager
\* a GetNextNonce that fetches the nonce on the first call and forgets to store it
GetNextNonceNoStore(a) ==
    /\ pc = "idle"
    /\ Len(records) < MaxRecords
    /\ LET first == nextNonce[a] = 0
           nonce == PendingNonceAt(a)
           result == nextNonce[a]
       IN  /\ queried' = (IF first THEN 1 ELSE 0)
           /\ confirmedNonce' = IF first THEN [confirmedNonce EXCEPT ![a] = nonce]
                                         ELSE confirmedNonce
           /\ nextNonce' = [nextNonce EXCEPT ![a] = result + 1]
           /\ records' = Append(records, NewTransaction(a, result, "mgr"))
    /\ resetAt' = [resetAt EXCEPT ![a] = -1]
    /\ outcome' = "none"
    /\ UNCHANGED <<chainVars, batches, waitVars, concVars, progVars>>

\* nonce := nonceManager.GetNextNonce(); tx := types.NewTransaction(nonce, ...)
\* with func (nm *NonceManager) GetNextNonce() uint64, one caller at a time
GetNextNonce(a) ==
    /\ pc = "idle"
    /\ Len(records) < MaxRecords
    /\ LET first == nextNonce[a] = 0
           nonce == PendingNonceAt(a)
           result == IF first THEN nonce ELSE nextNonce[a]
       IN  /\ queried' = (IF first THEN 1 ELSE 0)
           /\ confirmedNonce' = IF first THEN [confirmedNonce EXCEPT ![a] = nonce]
                                         ELSE confirmedNonce
           /\ nextNonce' = [nextNonce EXCEPT ![a] = result + 1]
           /\ records' = Append(records, NewTransaction(a, result, "mgr"))
    /\ resetAt' = [resetAt EXCEPT ![a] = -1]
    /\ outcome' = "none"
    /\ UNCHANGED <<chainVars, batches, waitVars, concVars, progVars>>

\* a reset that only forgets the cached value and leaves the query to the
\* next GetNextNonce
ResetLazily(a) ==
    /\ queried' = 0
    /\ nextNonce' = [nextNonce EXCEPT ![a] = 0]
    /\ confirmedNonce' = confirmedNonce
    /\ resetAt' = [resetAt EXCEPT ![a] = PendingNonceAt(a)]

\* a reset that re-synchronises the managers of all addresses, not only the
\* one whose transaction was rejected
ResetEveryManager(a) ==
    /\ queried' = 1
    /\ nextNonce' = [b \in Addrs |-> PendingNonceAt(b)]
    /\ confirmedNonce' = [confirmedNonce EXCEPT ![a] = PendingNonceAt(a)]
    /\ resetAt' = [resetAt EXCEPT ![a] = PendingNonceAt(a)]

\* func (nm *NonceManager) ResetFromNetwork()
ResetFromNetwork(a) ==
    LET nonce == PendingNonceAt(a)
    IN  /\ queried' = 1
        /\ nextNonce' = [nextNonce EXCEPT ![a] = nonce]
        /\ confirmedNonce' = [confirmedNonce EXCEPT ![a] = nonce]
        /\ resetAt' = [resetAt EXCEPT ![a] = nonce]

\* the pattern the documentation warns about: PendingNonceAt before each of the
\* k transactions, none of which has been sent yet
AllocatePerTransaction(a, k) ==
    /\ pc = "idle"
    /\ Len(records) + k <= MaxRecords
    /\ LET ns == [i \in 1..k |-> PendingNonceAt(a)]
       IN  /\ queried' = k
           /\ records' = records \o [i \in 1..k |-> NewTransaction(a, ns[i], "batch")]
           /\ batches' = Append(batches, [addr |-> a, start |-> ns[1], nonces |-> ns])
    /\ outcome' = "none"
    /\ UNCHANGED <<chainVars, mgrVars, waitVars, concVars, progVars>>

\* the batch pattern: nonce, _ := client.PendingNonceAt(ctx, fromAddress), then
\* types.NewTransaction(nonce+uint64(i), ...) for each of the k transactions
AllocateBatch(a, k) ==
    /\ pc = "idle"
    /\ Len(records) + k <= MaxRecords
    /\ LET nonce == PendingNonceAt(a)
           ns == BatchNonces(nonce, k)
       IN  /\ queried' = 1
           /\ records' = records \o [i \in 1..k |-> NewTransaction(a, ns[i], "batch")]
           /\ batches' = Append(batches, [addr |-> a, start |-> nonce, nonces |-> ns])
    /\ outcome' = "none"
    /\ UNCHANGED <<chainVars, mgrVars, waitVars, concVars, progVars>>

\* signedTx, err := types.SignTx(tx, types.NewEIP155Signer(chainID), privateKey)
Sign(r, ok) ==
    /\ pc = "idle"
    /\ r \in 1..Len(records)
    /\ records[r].status = "Built"
    /\ IF ok
       THEN records' = SetStatus(r, "Signed") /\ outcome' = "none"
       ELSE records' = records /\ outcome' = "SigningError"
    /\ queried' = 0
    /\ UNCHANGED <<chainVars, mgrVars, batches, waitVars, concVars, progVars>>

\* a send that takes the transaction for submitted whatever the node answered
SubmitIgnoringError(r, accepted) ==
    /\ pc = "idle"
    /\ r \in 1..Len(records)
    /\ records[r].status = "Signed"
    /\ ~records[r].rejected
    /\ LET a == records[r].addr
           n == records[r].nonce
       IN  /\ accepted => NodeAdmits(a, n)
           /\ pool' = IF accepted THEN [pool EXCEPT ![a] = @ \cup {r}] ELSE pool
           /\ records' = SetStatus(r, "Submitted")
           /\ outcome' = "none"
           /\ queried' = 0
    /\ UNCHANGED <<mined, receipts, blockNumber, mgrVars, batches, waitVars, concVars, progVars>>

\* err := client.SendTransaction(ctx, signedTx); the loop of the manager calls
\* nonceManager.ResetFromNetwork() when err != nil, the batch loop only reports
Submit(r, accepted) ==
    /\ pc = "idle"
    /\ r \in 1..Len(records)
    /\ records[r].status = "Signed"
    /\ ~records[r].rejected
    /\ LET a == records[r].addr
           n == records[r].nonce
       IN  IF accepted
           THEN /\ NodeAdmits(a, n)
                /\ pool' = [pool EXCEPT ![a] = @ \cup {r}]
                /\ records' = SetStatus(r, "Submitted")
                /\ outcome' = "none"
                /\ queried' = 0
                /\ UNCHANGED mgrVars
           ELSE /\ pool' = pool
                /\ records' = [records EXCEPT ![r].rejected = TRUE]
                /\ outcome' = "SubmissionRejected"
                /\ IF records[r].via = "mgr"
                   THEN ResetFromNetwork(a)
                   ELSE queried' = 0 /\ UNCHANGED mgrVars
    /\ UNCHANGED <<mined, receipts, blockNumber, batches, waitVars, concVars, progVars>>

\* --------------------------------------------------------------- WaitMined
\* receipt, err := bind.WaitMined(ctx, client, tx) with ctx = context.Background()
AwaitStart(r) ==
    /\ pc = "idle"
    /\ r \in 1..Len(records)
    /\ records[r].status = "Submitted"
    /\ pc' = "poll"
    /\ waiting' = r
    /\ outcome' = "none"
    /\ queried' = 0
    /\ UNCHANGED <<chainVars, mgrVars, records, batches, concVars, progVars>>

\* a check that takes every receipt for a success
StatusOfAnyReceipt(receipt) == IF receipt.status >= 0 THEN "Confirmed" ELSE "Failed"

\* if receipt.Status == 1 { confirmed } else { log.Fatalf("Transaction failed ...") }
StatusOf(receipt) == IF receipt.status = 1 THEN "Confirmed" ELSE "Failed"
OutcomeOf(receipt) == IF receipt.status = 1 THEN "Confirmed" ELSE "ExecutionReverted"

\* one round of the loop in WaitMined: ask for the receipt; return it when the
\* node has it, otherwise go and wait for the ticker
PollReceipt ==
    /\ pc = "poll"
    /\ IF HasReceiptFor(waiting)
       THEN /\ records' = SetStatus(waiting, StatusOf(ReceiptFor(waiting)))
            /\ outcome' = OutcomeOf(ReceiptFor(waiting))
            /\ pc' = "idle"
            /\ waiting' = 0
       ELSE /\ pc' = "tick"
            /\ UNCHANGED <<records, outcome, waiting>>
    /\ UNCHANGED <<chainVars, mgrVars, queried, batches, concVars, progVars>>

\* select { case <-ctx.Done(): ...; case <-queryTicker.C: }: the background
\* context is never done, so only the ticker wakes the loop
PollTick ==
    /\ pc = "tick"
    /\ pc' = "poll"
    /\ UNCHANGED <<chainVars, mgrVars, queried, records, batches, outcome, waiting, concVars, progVars>>

\* ------------------------------------------------------------------- Next
Next ==
    \/ \E a \in Addrs : GetNextNonce(a)
    \/ \E a \in Addrs, k \in 1..MaxBatch : AllocateBatch(a, k)
    \/ \E r \in 1..MaxRecords, ok \in BOOLEAN : Sign(r, ok)
    \/ \E r \in 1..MaxRecords, accepted \in BOOLEAN : Submit(r, accepted)
    \/ \E r \in 1..MaxRecords : AwaitStart(r)
    \/ PollReceipt
    \/ PollTick
    \/ \E a \in Addrs, newBlock \in BOOLEAN, st \in {0, 1} : ChainInclude(a, newBlock, st)
    \/ \E a \in Addrs, n \in 0..MaxNonce : ChainDrop(a, n)

Spec == Init /\ [][Next]_vars

\* the caller's steps are taken as long as they are possible: a goroutine that
\* can run does run; the network owes nothing
FairSpec == Spec /\ WF_vars(PollReceipt) /\ WF_vars(PollTick)

\* -------------------------------------------- GetNextNonce, concurrent callers
\* NonceManager has no lock: the statements of GetNextNonce, run by several
\* goroutines on one manager, interleave at every read and write of nextNonce
InFlight == Cardinality({c \in Callers : caller[c].pc # "idle"})

seqVars == <<chainVars, batches, outcome, waitVars, resetAt, progVars>>

\* nonce := nonceManager.GetNextNonce() is called
CallGetNextNonce(c, a) ==
    /\ caller[c].pc = "idle"
    /\ Len(records) + InFlight < MaxRecords
    /\ caller' = [caller EXCEPT ![c] = [Idle EXCEPT !.pc = "check", !.addr = a]]
    /\ UNCHANGED <<seqVars, nextNonce, confirmedNonce, queried, records>>

\* if nm.nextNonce == 0 {
CheckFirst(c) ==
    /\ caller[c].pc = "check"
    /\ caller' = [caller EXCEPT ![c].pc =
                     IF nextNonce[caller[c].addr] = 0 THEN "query" ELSE "read"]
    /\ UNCHANGED <<seqVars, nextNonce, confirmedNonce, queried, records>>

\* nonce, _ := nm.client.PendingNonceAt(context.Background(), nm.address)
QueryChain(c) ==
    /\ caller[c].pc = "query"
    /\ caller' = [caller EXCEPT ![c].pc = "store",
                                ![c].nonce = PendingNonceAt(caller[c].addr)]
    /\ queried' = 1
    /\ UNCHANGED <<seqVars, nextNonce, confirmedNonce, records>>

\* nm.nextNonce = nonce }
StoreNonce(c) ==
    /\ caller[c].pc = "store"
    /\ nextNonce' = [nextNonce EXCEPT ![caller[c].addr] = caller[c].nonce]
    /\ confirmedNonce' = [confirmedNonce EXCEPT ![caller[c].addr] = caller[c].nonce]
    /\ caller' = [caller EXCEPT ![c].pc = "read"]
    /\ UNCHANGED <<seqVars, queried, records>>

\* result := nm.nextNonce
ReadResult(c) ==
    /\ caller[c].pc = "read"
    /\ caller' = [caller EXCEPT ![c].pc = "load",
                                ![c].result = nextNonce[caller[c].addr]]
    /\ UNCHANGED <<seqVars, nextNonce, confirmedNonce, queried, records>>

\* nm.nextNonce++, the read half
LoadNext(c) ==
    /\ caller[c].pc = "load"
    /\ caller' = [caller EXCEPT ![c].pc = "inc",
                                ![c].tmp = nextNonce[caller[c].addr]]
    /\ UNCHANGED <<seqVars, nextNonce, confirmedNonce, queried, records>>

\* nm.nextNonce++, the write half; return result, from which the caller
\* builds its transaction
StoreNextAndReturn(c) ==
    /\ caller[c].pc = "inc"
    /\ nextNonce' = [nextNonce EXCEPT ![caller[c].addr] = caller[c].tmp + 1]
    /\ records' = Append(records, NewTransaction(caller[c].addr, caller[c].result, "mgr"))
    /\ caller' = [caller EXCEPT ![c] = Idle]
    /\ UNCHANGED <<seqVars, confirmedNonce, queried>>

NextConc ==
    \/ \E c \in Callers, a \in Addrs : CallGetNextNonce(c, a)
    \/ \E c \in Callers : CheckFirst(c)
    \/ \E c \in Callers : QueryChain(c)
    \/ \E c \in Callers : StoreNonce(c)
    \/ \E c \in Callers : ReadResult(c)
    \/ \E c \in Callers : LoadNext(c)
    \/ \E c \in Callers : StoreNextAndReturn(c)

SpecConc == Init /\ [][NextConc]_vars

\* =================================================================== claims
Range(start, k) == [i \in 1..k |-> start + (i - 1)]

\* the batches handed out for address a, in call order
BatchesOf(a) == SelectSeq(batches, LAMBDA b : b.addr = a)

RECURSIVE Concat(_)
Concat(ss) == IF ss = <<>> THEN <<>> ELSE Head(ss).nonces \o Concat(Tail(ss))

\* every nonce AllocateBatch returned for a, in the order it was returned
Returned(a) == Concat(BatchesOf(a))

\* each later batch for a fetched the nonce right after the previous batch
Advanced(a) ==
    \A i \in 1..(Len(BatchesOf(a)) - 1) :
        BatchesOf(a)[i + 1].start = BatchesOf(a)[i].start + Len(BatchesOf(a)[i].nonces)

\* C1 as stated: for every address the nonces returned by all AllocateBatch
\* calls together are exactly the contiguous range that starts at the first
\* fetched pending nonce, without duplicate and without gap.
C1_UnionContiguous ==
    \A a \in Addrs :
        BatchesOf(a) # <<>> =>
            Returned(a) = Range(BatchesOf(a)[1].start, Len(Returned(a)))

\* C1 amended: every AllocateBatch call returns, in increasing order, the k
\* contiguous nonces that start at the pending nonce this call fetched; the
\* calls together return one contiguous range without duplicates when each
\* later call fetched the nonce that follows the previous batch.
C1_BatchContiguous ==
    /\ \A i \in 1..Len(batches) :
           batches[i].nonces = Range(batches[i].start, Len(batches[i].nonces))
    /\ \A a \in Addrs :
           (BatchesOf(a) # <<>> /\ Advanced(a)) =>
               Returned(a) = Range(BatchesOf(a)[1].start, Len(Returned(a)))

\* two batches for one address, the second fetched after the node admitted
\* the whole first batch
C1_Witness ==
    \E a \in Addrs :
        /\ Len(BatchesOf(a)) >= 2
        /\ Advanced(a)
        /\ Len(Returned(a)) >= 2

\* C3: one AllocateBatch step makes exactly one pending-nonce query, whatever
\* the count, and every nonce of the batch is the fetched value plus its index.
C3_OneQueryPerBatch ==
    [][Len(batches') = Len(batches) + 1 =>
         LET b == batches'[Len(batches')]
         IN  /\ queried' = 1
             /\ b.start = PendingNonceAt(b.addr)
             /\ \A i \in 1..Len(b.nonces) : b.nonces[i] = b.start + (i - 1)]_vars

\* a batch of more than one nonce was just handed out with a single query
C3_Witness ==
    /\ batches # <<>>
    /\ Len(batches[Len(batches)].nonces) >= 2
    /\ Len(records) = Len(batches[Len(batches)].nonces)
    /\ queried = 1


\* --------------------------------------------------------------------- C4
\* the step is GetNextNonce for address a: it built one more record from the manager
IsAllocateNonce(a) ==
    /\ Len(records') = Len(records) + 1
    /\ records'[Len(records')].addr = a
    /\ records'[Len(records')].via = "mgr"

\* the step is a Submit of a manager transaction of address a that the node rejected
IsRejection(a) ==
    \E r \in 1..Len(records) :
        /\ records[r].addr = a
        /\ records[r].via = "mgr"
        /\ ~records[r].rejected
        /\ records'[r].rejected

\* C4 as stated: the AllocateNonce that follows a SubmissionRejected makes a
\* fresh pending-nonce query and returns what the chain reports at that moment.
C4_FreshQueryAtNextAllocation ==
    [][\A a \in Addrs :
         (resetAt[a] # -1 /\ IsAllocateNonce(a)) =>
             /\ queried' = 1
             /\ records'[Len(records')].nonce = PendingNonceAt(a)]_vars

\* C4 amended: the rejected Submit itself queries the chain (ResetFromNetwork)
\* and stores the pending nonce of that moment in nextNonce; the AllocateNonce
\* that follows returns this stored value without a query, and queries the
\* chain again only when the stored value is 0.
C4_QueryAtRejection ==
    [][\A a \in Addrs :
         /\ IsRejection(a) =>
               /\ queried' = 1
               /\ nextNonce'[a] = PendingNonceAt(a)
               /\ resetAt'[a] = PendingNonceAt(a)
         /\ (resetAt[a] # -1 /\ IsAllocateNonce(a)) =>
               IF resetAt[a] = 0
               THEN /\ queried' = 1
                    /\ records'[Len(records')].nonce = PendingNonceAt(a)
               ELSE /\ queried' = 0
                    /\ records'[Len(records')].nonce = resetAt[a]]_vars

\* a manager transaction was rejected and the next allocation for the address
\* handed out the value stored at the rejection, without a query
C4_Witness ==
    \E r, q \in 1..Len(records) :
        /\ r < q
        /\ records[r].addr = records[q].addr
        /\ records[r].via = "mgr" /\ records[q].via = "mgr"
        /\ records[r].rejected
        /\ q = Len(records) /\ records[q].status = "Built"
        /\ nextNonce[records[q].addr] = records[q].nonce + 1
        /\ records[q].nonce > 0
        /\ queried = 0

\* --------------------------------------------------------------------- C5
StatusStep(from, to) ==
    \/ from = to
    \/ from = "Built" /\ to = "Signed"
    \/ from = "Signed" /\ to = "Submitted"
    \/ from = "Submitted" /\ to \in {"Confirmed", "Failed"}

\* C5: a record starts as Built and its status only moves Built -> Signed ->
\* Submitted -> Confirmed or Failed, one step at a time and never backwards; it
\* becomes Submitted only in a step in which the node admits its nonce to the
\* pool; Confirmed and Failed are never left; no record disappears.
C5_StatusOrder ==
    [][/\ Len(records') >= Len(records)
       /\ \A r \in 1..Len(records') :
             IF r > Len(records)
             THEN records'[r].status = "Built"
             ELSE /\ StatusStep(records[r].status, records'[r].status)
                  /\ (records[r].status = "Signed" /\ records'[r].status = "Submitted") =>
                        /\ r \notin pool[records[r].addr]
                        /\ r \in pool'[records[r].addr]
                  /\ records'[r].addr = records[r].addr
                  /\ records'[r].nonce = records[r].nonce]_vars

\* one record went all the way to Confirmed, another one to Failed
C5_Witness ==
    \E r, q \in 1..Len(records) :
        records[r].status = "Confirmed" /\ records[q].status = "Failed"

\* --------------------------------------------------------------------- C6
\* WaitMined returns in this step
WaitReturns == pc = "poll" /\ pc' = "idle"

\* C6: when the wait returns, the record it waited for is Failed and the
\* outcome ExecutionReverted exactly when the receipt has failure status, and
\* Confirmed with outcome Confirmed exactly when the receipt has status 1; no
\* other step produces ExecutionReverted, so the outcome is never mistaken for a
\* rejected submission or a signing error.
C6_RevertedIsDistinct ==
    [][/\ WaitReturns =>
             /\ HasReceiptFor(waiting)
             /\ ReceiptFor(waiting).status = 0 =>
                   /\ records'[waiting].status = "Failed"
                   /\ outcome' = "ExecutionReverted"
             /\ ReceiptFor(waiting).status = 1 =>
                   /\ records'[waiting].status = "Confirmed"
                   /\ outcome' = "Confirmed"
       /\ ~WaitReturns =>
             /\ outcome' \in {"ExecutionReverted", "Confirmed"} => outcome' = outcome
             /\ \A r \in 1..Len(records) :
                   records'[r].status \in {"Failed", "Confirmed"} =>
                       records'[r].status = records[r].status]_vars

\* the wait has just returned ExecutionReverted for a record that is now Failed
C6_Witness ==
    /\ outcome = "ExecutionReverted"
    /\ pc = "idle"
    /\ \E r \in 1..Len(records) :
          /\ records[r].status = "Failed"
          /\ HasReceiptFor(r)
          /\ ReceiptFor(r).status = 0

\* --------------------------------------------------------------------- C8
\* C8: for every address the manager's nextNonce is at least confirmedNonce,
\* the pending nonce the manager fetched from the chain last.
C8_NextAtLeastConfirmed ==
    \A a \in Addrs : nextNonce[a] >= confirmedNonce[a]

\* after a rejection and the reset it causes, a new allocation moved nextNonce
\* above the fetched value
C8_Witness ==
    \E a \in Addrs :
        /\ confirmedNonce[a] > 0
        /\ nextNonce[a] > confirmedNonce[a]
        /\ \E r \in 1..Len(records) : records[r].addr = a /\ records[r].rejected

\* --------------------------------------------------------------------- C9
\* C9: an account's transaction is included only after all its transactions
\* with smaller nonces, and the block numbers of its receipts do not decrease
\* with the nonce.
C9_InclusionInNonceOrder ==
    \A y \in receipts :
        /\ \A n \in StartNonce[y.addr]..(y.nonce - 1) : HasReceipt(y.addr, n)
        /\ \A x \in receipts :
              (x.addr = y.addr /\ x.nonce < y.nonce) => x.block <= y.block

\* two transactions of one account were included in different blocks, and the
\* caller has seen the receipt of the later one before that of the earlier one
C9_Witness ==
    \E r, q \in 1..Len(records) :
        /\ records[r].addr = records[q].addr
        /\ records[r].nonce + 1 = records[q].nonce
        /\ records[r].status = "Submitted"
        /\ records[q].status \in {"Confirmed", "Failed"}
        /\ HasReceipt(records[r].addr, records[r].nonce)
        /\ ReceiptOf(records[r].addr, records[r].nonce).block
               < ReceiptOf(records[q].addr, records[q].nonce).block


\* --------------------------------------------------------------------- C2
\* C2 as stated: GetNextNonce calls made by several goroutines for the same
\* address never return the same nonce.
C2_ConcurrentNoncesDistinct ==
    \A r, q \in 1..Len(records) :
        (r # q /\ records[r].addr = records[q].addr) =>
            records[r].nonce # records[q].nonce

\* --------------------------------------------------------------------- C7
\* C7 as stated: a wait for a receipt that has started always returns.
C7_WaitReturns == (pc = "poll") ~> (pc = "idle")


\* -------------------------------------------------------------------- C11
\* C11: nextNonce of an address changes only in a GetNextNonce step for that
\* address, which adds one, or in the reset a rejected Submit of that address
\* causes; AllocateBatch, which works on the value it fetched itself, signing,
\* an accepted Submit, the wait for a receipt and every step of the network
\* leave nextNonce of every address unchanged, and no step for one address
\* changes nextNonce of another one.
C11_NextNonceFrame ==
    [][\A a \in Addrs :
         nextNonce'[a] # nextNonce[a] =>
             \/ IsAllocateNonce(a) /\ nextNonce'[a] = records'[Len(records')].nonce + 1
             \/ IsRejection(a) /\ nextNonce'[a] = PendingNonceAt(a)]_vars

\* both addresses have a warm manager; a transaction of one of them was
\* signed, accepted and waited for, and its manager still holds the value the
\* allocation left
C11_Witness ==
    \E r, q \in 1..Len(records) :
        /\ records[r].addr # records[q].addr
        /\ records[r].via = "mgr" /\ records[q].via = "mgr"
        /\ records[r].status \in {"Confirmed", "Failed"}
        /\ nextNonce[records[r].addr] = records[r].nonce + 1
        /\ nextNonce[records[q].addr] = records[q].nonce + 1

\* -------------------------------------------------- per-transaction query
\* one round of the loop the documentation warns about:
\*   nonce, _ := client.PendingNonceAt(ctx, fromAddress)
\*   tx := types.NewTransaction(nonce, toAddress, value, gasLimit, gasPrice, nil)
\* The transactions are sent by Submit, at any later moment.
PerTransactionQuery(a) ==
    /\ pc = "idle"
    /\ Len(records) < MaxRecords
    /\ queried' = 1
    /\ records' = Append(records, NewTransaction(a, PendingNonceAt(a), "pertx"))
    /\ outcome' = "none"
    /\ UNCHANGED <<chainVars, mgrVars, batches, waitVars, concVars, progVars>>

NextPerTx ==
    \/ \E a \in Addrs : PerTransactionQuery(a)
    \/ \E r \in 1..MaxRecords, ok \in BOOLEAN : Sign(r, ok)
    \/ \E r \in 1..MaxRecords, accepted \in BOOLEAN : Submit(r, accepted)
    \/ \E r \in 1..MaxRecords : AwaitStart(r)
    \/ PollReceipt
    \/ PollTick
    \/ \E a \in Addrs, newBlock \in BOOLEAN, st \in {0, 1} : ChainInclude(a, newBlock, st)
    \/ \E a \in Addrs, n \in 0..MaxNonce : ChainDrop(a, n)

SpecPerTx == Init /\ [][NextPerTx]_vars

\* -------------------------------------------------------------------- C13
\* the transactions of the per-transaction-query pattern that share their
\* account and nonce with record r
SameNonce(r) ==
    {q \in 1..Len(records) :
        /\ records[q].via = "pertx"
        /\ records[q].addr = records[r].addr
        /\ records[q].nonce = records[r].nonce}

\* C13: of the transactions of the per-transaction-query pattern that were
\* given the same nonce of one account, at most one is ever included by the
\* chain (has a receipt), and at most one of them is in the pending pool at a
\* time; that two of them do share a nonce is what the witness reaches.
C13_OneOfSharedNonceIncluded ==
    \A r \in 1..Len(records) :
        records[r].via = "pertx" =>
            /\ Cardinality({q \in SameNonce(r) : HasReceiptFor(q)}) <= 1
            /\ Cardinality(SameNonce(r) \cap pool[records[r].addr]) <= 1

\* two queries answered with the same pending nonce: the first transaction was
\* included, the second one was refused by the node and has no receipt
C13_Witness ==
    \E r, q \in 1..Len(records) :
        /\ r < q
        /\ q \in SameNonce(r)
        /\ records[r].via = "pertx"
        /\ HasReceiptFor(r)
        /\ records[q].rejected
        /\ ~HasReceiptFor(q)

\* ------------------------------------------------------------ task01, task02
\* One run of a program of task02.go, statement by statement.  Amounts are in
\* Gwei (10^9 wei).  Every statement that can fail ends the run (log.Fatal).

\* value := big.NewInt(1000000000000000), 10^15 wei
Value == 1000000
\* gasLimit := uint64(21000)
GasLimit == 21000

GasPrices == {1, 20}

\* totalCost = value + gasPrice * gasLimit
TotalCost(gasPrice) == Value + gasPrice * GasLimit

Balances == {0} \cup {TotalCost(g) - 1 : g \in GasPrices} \cup {TotalCost(g) : g \in GasPrices}

Task01Steps ==
    <<"load", "key", "rcpt", "dial", "latest", "block", "parse", "balance", "nonce",
      "gasprice", "check", "chainid", "sign", "send">>

Task02Steps ==
    <<"load", "key", "rcpt", "contract", "dial", "parse", "chainid", "transactor",
      "bind", "count", "send", "wait", "status", "sync", "compare">>

StepsOf(prog) == IF prog = "task01" THEN Task01Steps ELSE Task02Steps

\* statements that ask the node something
QuerySteps == {"latest", "block", "balance", "nonce", "gasprice", "chainid", "count", "sync"}
\* statements that compute locally and can fail
LocalSteps == {"parse", "sign", "transactor", "bind"}

Envs == [rpc : BOOLEAN, key : BOOLEAN, rcpt : BOOLEAN, contract : BOOLEAN]

RunAt(step) ==
    /\ run.failed = "none"
    /\ run.at \in 1..Len(StepsOf(run.prog))
    /\ StepsOf(run.prog)[run.at] = step

RunPass(step) == [run EXCEPT !.at = @ + 1, !.passed = @ \cup {step}]
RunFatal(step) == [run EXCEPT !.failed = step]

RunUnchanged == UNCHANGED <<chainVars, mgrVars, queried, records, batches, outcome,
                            waitVars, concVars, net>>

\* godotenv.Load (its error only logs) and the endpoint variable with its default
RunLoadEnv ==
    /\ RunAt("load")
    /\ run' = [RunPass("load") EXCEPT
                 !.endpoint = IF run.env.rpc THEN "env" ELSE "default"]
    /\ RunUnchanged

\* a private key check that logs the missing variable and goes on
RunWarnKey ==
    /\ RunAt("key")
    /\ run' = RunPass("key")
    /\ RunUnchanged

\* privateKeyHex == "" -> log.Fatal
RunRequireKey ==
    /\ RunAt("key")
    /\ run' = IF run.env.key THEN RunPass("key") ELSE RunFatal("key")
    /\ RunUnchanged

\* recipientAddr == "" -> log.Fatal
RunRequireRecipient ==
    /\ RunAt("rcpt")
    /\ run' = IF run.env.rcpt THEN RunPass("rcpt") ELSE RunFatal("rcpt")
    /\ RunUnchanged

\* contractAddr == "" -> log.Fatal (task02 only)
RunRequireContract ==
    /\ RunAt("contract")
    /\ run' = IF run.env.contract THEN RunPass("contract") ELSE RunFatal("contract")
    /\ RunUnchanged

\* ethclient.DialContext(ctx, rpcURL)
RunDial ==
    /\ RunAt("dial")
    /\ \E ok \in BOOLEAN :
         run' = IF ok THEN [RunPass("dial") EXCEPT !.connected = TRUE]
                      ELSE RunFatal("dial")
    /\ RunUnchanged

\* BlockByNumber, BalanceAt, PendingNonceAt, SuggestGasPrice, NetworkID, GetCount
RunQuery ==
    /\ \E step \in QuerySteps :
         /\ RunAt(step)
         /\ \E ok \in BOOLEAN :
              run' = IF ok THEN [RunPass(step) EXCEPT !.queries = @ + 1]
                           ELSE [RunFatal(step) EXCEPT !.queries = @ + 1]
    /\ RunUnchanged

\* crypto.HexToECDSA, types.SignTx, NewKeyedTransactorWithChainID, NewCounter
RunLocal ==
    /\ \E step \in LocalSteps :
         /\ RunAt(step)
         /\ \E ok \in BOOLEAN :
              run' = IF ok THEN RunPass(step) ELSE RunFatal(step)
    /\ RunUnchanged

\* a balance check with the comparison the wrong way round
RunCheckBalanceReversed ==
    /\ RunAt("check")
    /\ run' = IF run.balance > TotalCost(run.gasPrice)
                 THEN RunFatal("check") ELSE RunPass("check")
    /\ RunUnchanged

\* if balance.Cmp(totalCost) < 0 { log.Fatalf(...) }
RunCheckBalance ==
    /\ RunAt("check")
    /\ run' = IF run.balance < TotalCost(run.gasPrice)
                 THEN RunFatal("check") ELSE RunPass("check")
    /\ RunUnchanged

\* client.SendTransaction(ctx, signedTx); contract.Increment(auth) in task02
RunSend ==
    /\ RunAt("send")
    /\ \E ok \in BOOLEAN :
         run' = IF ok THEN [RunPass("send") EXCEPT !.sends = @ + 1]
                      ELSE [RunFatal("send") EXCEPT !.sends = @ + 1]
    /\ RunUnchanged

\* bind.WaitMined(ctx, client, tx), then receipt.Status: the wait returns only
\* with a receipt or an error, so a run may stay here
RunWait ==
    /\ RunAt("wait")
    /\ \E ok \in BOOLEAN :
         run' = IF ok THEN [RunPass("wait") EXCEPT !.queries = @ + 1]
                      ELSE [RunFatal("wait") EXCEPT !.queries = @ + 1]
    /\ RunUnchanged

\* receipt.Status == 1, else log.Fatal
RunStatus ==
    /\ RunAt("status")
    /\ \E st \in {0, 1} :
         run' = IF st = 1 THEN RunPass("status") ELSE RunFatal("status")
    /\ RunUnchanged

\* countAfter > countBefore, else a warning and one more GetCount whose error
\* is only logged
RunCompare ==
    /\ RunAt("compare")
    /\ \E incremented \in BOOLEAN :
         run' = [RunPass("compare") EXCEPT
                   !.queries = IF incremented THEN @ ELSE @ + 1]
    /\ RunUnchanged

Runs ==
    {[NoRun EXCEPT !.prog = p, !.env = e, !.balance = b, !.gasPrice = g, !.at = 1] :
        p \in {"task01", "task02"}, e \in Envs, b \in Balances, g \in GasPrices}

InitRun ==
    /\ InitSeq
    /\ net = NoNet
    /\ run \in Runs

NextRun ==
    \/ RunLoadEnv
    \/ RunRequireKey
    \/ RunRequireRecipient
    \/ RunRequireContract
    \/ RunDial
    \/ RunQuery
    \/ RunLocal
    \/ RunCheckBalance
    \/ RunSend
    \/ RunWait
    \/ RunStatus
    \/ RunCompare

SpecRun == InitRun /\ [][NextRun]_vars

\* -------------------------------------------------------------------- C12
\* C12: a run whose PRIVATE_KEY or RECIPIENT_ADDR is unset never connects, never
\* queries the node and never submits, and it stops at the check of the first
\* unset one; a run with both set in which only the endpoint variable is unset
\* does not stop for that: it takes the default endpoint and, once the checks
\* are passed, is at the dial.
C12_RequiredVariables ==
    /\ (~run.env.key \/ ~run.env.rcpt) =>
          /\ ~run.connected /\ run.queries = 0 /\ run.sends = 0
          /\ "dial" \notin run.passed
          /\ run.failed \in {"none", "key", "rcpt"}
          /\ "rcpt" \notin run.passed
    /\ run.failed = "key" => ~run.env.key
    /\ run.failed = "rcpt" => run.env.key /\ ~run.env.rcpt
    /\ (~run.env.rpc /\ run.env.key /\ run.env.rcpt /\ run.at > 1) =>
          /\ run.endpoint = "default"
          /\ run.failed \notin {"load", "key", "rcpt"}

C12_Witness ==
    /\ run.prog = "task01"
    /\ run.env.key /\ ~run.env.rcpt
    /\ run.failed = "rcpt"
    /\ "key" \in run.passed

C12_DefaultEndpointWitness ==
    /\ ~run.env.rpc /\ run.env.key /\ run.env.rcpt
    /\ run.endpoint = "default" /\ run.connected /\ run.sends = 1

\* -------------------------------------------------------------------- C14
\* the statements of task01 before the submission that can end the run
BeforeSend ==
    {"latest", "block", "parse", "balance", "nonce", "gasprice", "check", "chainid", "sign"}

\* C14: a run of task01 calls SendTransaction at most once, and only with a
\* balance of at least value + gasPrice * gasLimit and after the latest block,
\* the block query, the key parsing, the balance, the nonce, the gas price, the
\* chain id and the signing all succeeded; a run with a smaller balance, or one
\* that failed at any of these statements, has submitted nothing.
C14_SubmitOnceWhenFunded ==
    run.prog = "task01" =>
        /\ run.sends <= 1
        /\ run.sends = 1 =>
              /\ run.balance >= Value + run.gasPrice * GasLimit
              /\ BeforeSend \subseteq run.passed
              /\ run.failed \in {"none", "send"}
        /\ run.balance < Value + run.gasPrice * GasLimit => run.sends = 0
        /\ run.failed \in BeforeSend \cup {"key", "rcpt", "dial"} => run.sends = 0

C14_Witness ==
    /\ run.prog = "task01"
    /\ run.sends = 1
    /\ run.failed = "none"
    /\ run.balance = Value + run.gasPrice * GasLimit

\* ------------------------------------------- context examples, func main
\* main calls contextExamples() and then networkOperationWithTimeout().  Time
\* is counted in seconds; time.Sleep and the timer of a context last at least
\* their duration, and a goroutine that may run runs at that moment or later.

MaxClock == 8

\* time.Sleep(2 * time.Second) before cancelFunc()
CancelAfter == 2
\* context.WithTimeout(context.Background(), 3*time.Second)
OpTimeout == 3
\* time.Sleep(2 * time.Second) before done <- true
OpDelay == 2

NetUnchanged == UNCHANGED <<chainVars, mgrVars, queried, records, batches, outcome,
                            waitVars, concVars, run>>

Tick ==
    /\ net.mpc \notin {"off", "exited"}
    /\ net.clock < MaxClock
    /\ net' = [net EXCEPT !.clock = @ + 1]
    /\ NetUnchanged

\* contextExamples() up to <-cancelCtx.Done(): starts the goroutine that cancels
ExStart ==
    /\ net.mpc = "start"
    /\ net' = [net EXCEPT !.mpc = "wait_cancel", !.cpc = "sleep",
                          !.cwake = net.clock + CancelAfter]
    /\ NetUnchanged

\* go func() { time.Sleep(2 * time.Second); cancelFunc() }()
CancellerWake ==
    /\ net.mpc # "exited"
    /\ net.cpc = "sleep"
    /\ net.clock >= net.cwake
    /\ net' = [net EXCEPT !.cpc = "done", !.cancelled = TRUE]
    /\ NetUnchanged

\* <-cancelCtx.Done() returns and contextExamples() with it
ExReturn ==
    /\ net.mpc = "wait_cancel"
    /\ net.cancelled
    /\ net' = [net EXCEPT !.mpc = "call_op"]
    /\ NetUnchanged

\* networkOperationWithTimeout() up to the select: the context with its
\* deadline, done := make(chan bool), and the worker goroutine
OpStart ==
    /\ net.mpc = "call_op"
    /\ net' = [net EXCEPT !.mpc = "select", !.deadline = net.clock + OpTimeout,
                          !.wpc = "sleep", !.wwake = net.clock + OpDelay]
    /\ NetUnchanged

\* the worker's sleep is over: it is at done <- true
WorkerWake ==
    /\ net.mpc # "exited"
    /\ net.wpc = "sleep"
    /\ net.clock >= net.wwake
    /\ net' = [net EXCEPT !.wpc = "send"]
    /\ NetUnchanged

\* case <-ctx.Done(): the deadline has passed; the function returns
SelectTimeout ==
    /\ net.mpc = "select"
    /\ net.clock >= net.deadline
    /\ net' = [net EXCEPT !.mpc = "returned", !.branch = "timeout"]
    /\ NetUnchanged

\* case <-done: the send of the worker and the receive of the select meet on
\* the unbuffered channel; the worker's function ends, the function returns
SelectDone ==
    /\ net.mpc = "select"
    /\ net.wpc = "send"
    /\ net' = [net EXCEPT !.mpc = "returned", !.branch = "done", !.wpc = "done"]
    /\ NetUnchanged

\* main returns: the process exits, and no goroutine runs any more
MainExit ==
    /\ net.mpc = "returned"
    /\ net' = [net EXCEPT !.mpc = "exited"]
    /\ NetUnchanged

InitNet ==
    /\ InitSeq
    /\ run = NoRun
    /\ net = [NoNet EXCEPT !.mpc = "start"]

NextNet ==
    \/ Tick
    \/ ExStart
    \/ CancellerWake
    \/ ExReturn
    \/ OpStart
    \/ WorkerWake
    \/ SelectDone
    \/ SelectTimeout
    \/ MainExit

SpecNet == InitNet /\ [][NextNet]_vars

\* -------------------------------------------------------------------- C15
\* C15: once networkOperationWithTimeout has returned, its worker goroutine is
\* not at the send on done: no state has the function returned, or the process
\* exited, with the worker still blocked on done <- true, where nothing can
\* receive from it any more.
C15_WorkerNeverLeftBlocked ==
    ~(net.mpc \in {"returned", "exited"} /\ net.wpc = "send")

\* the branch that works: the worker's send met the select and both ended
C15_DoneBranch ==
    net.mpc = "returned" /\ net.branch = "done" /\ net.wpc = "done"

====
